---- MODULE Spec2Model ----
(***************************************************************************)
(* A model of coroki/sqs-messenger: the message utilities (validation,     *)
(* body formatting, request construction, seed import) and the React      *)
(* components that hold the message list and send messages to SQS.         *)
(*                                                                         *)
(* JavaScript strings whose characters matter (a message body, an          *)
(* attribute value) are sequences of one-character strings; strings that   *)
(* are only compared (attribute names, data types) are TLA+ strings.       *)
(* An optional value (string[] | undefined) is Undefined or Some(v).       *)
(* A call that may throw yields Return(v) or Throw(e).                     *)
(***************************************************************************)
EXTENDS Integers, Sequences, FiniteSets, TLC

VARIABLES
    input,      \* utilities: the message handed to a MessageUtils function
    output,     \* utilities: the function applied and its completion
    phase,      \* App: "init" until the seed import settles, then "ready"
    seed,       \* the optional local messages.js: Undefined or Some(items)
    messages,   \* Messages: the `messages` state (useState)
    components, \* Message: state and memoized send handler of each list item
    inflight,   \* sqs.sendMessage calls whose callback has not run yet
    sqsCalls,   \* number of calls made to sqs.sendMessage
    resolved,   \* what the last settled Messages.sendMessage promise gave
    events,     \* number of user events handled so far
    config,     \* App: the `config` state (useState)
    settings    \* Settings: its state and memoized test handler

vars == <<input, output, phase, seed, messages, components, inflight, sqsCalls, resolved,
         events, config, settings>>

utilVars == <<input, output>>
settingsVars == <<config, settings>>
appVars == <<phase, seed, messages, components, inflight, sqsCalls, resolved, events,
            config, settings>>

----------------------------------------------------------------------------
(* Bounds of the model. *)

MaxAttrs == 2        \* attributes per message handed to the utilities
MaxNames == 4        \* attributes per message when only names vary
MaxId == 1           \* generateRandomId draws from 0..MaxId
MaxEvents == 3       \* user events (clicks, edits) in one session
MaxBodyLen == 3      \* characters of a body made of BodyChars

----------------------------------------------------------------------------
(* JavaScript values. *)

Undefined == <<>>
Some(v) == <<v>>

Return(v) == [type |-> "normal", value |-> v]
Throw(e) == [type |-> "throw", value |-> e]

TypeError == "TypeError"

Empty == <<>>                      \* the string ''
WhiteSpace == {" ", "\n"}
Digits == {"0", "1", "2", "3", "4", "5", "6", "7", "8", "9"}

RECURSIVE SeqsUpTo(_, _)
SeqsUpTo(S, n) ==
    IF n = 0 THEN {<<>>}
    ELSE LET shorter == SeqsUpTo(S, n - 1)
         IN  shorter \cup {Append(s, x) : s \in {t \in shorter : Len(t) = n - 1}, x \in S}

(* String.prototype.trim *)
RECURSIVE trimStart(_)
trimStart(s) ==
    IF s # Empty /\ Head(s) \in WhiteSpace THEN trimStart(Tail(s)) ELSE s

RECURSIVE trimEnd(_)
trimEnd(s) ==
    IF s # Empty /\ s[Len(s)] \in WhiteSpace THEN trimEnd(SubSeq(s, 1, Len(s) - 1)) ELSE s

trim(s) == trimEnd(trimStart(s))

----------------------------------------------------------------------------
(* MessageUtils: helpers. *)

(* Math.round(Math.random() * 100000).toString(): any identifier of the   *)
(* range may come out of any call; the range is cut down to 0..MaxId.      *)
generateRandomId == 0..MaxId

getAttributeTypes == {"String", "Binary", "Number"}

AllIn(s, S) == \A i \in 1..Len(s) : s[i] \in S

(* The StringNumericLiteral grammar of Number(str) and parseFloat(str). *)
IsDecimalDigits(s) == s # Empty /\ AllIn(s, Digits)

IsUnsignedMantissa(s) ==
    \E k \in 0..Len(s) :
        LET int == SubSeq(s, 1, k)
            rest == SubSeq(s, k + 1, Len(s))
        IN  /\ AllIn(int, Digits)
            /\ \/ rest = Empty /\ k > 0
               \/ /\ rest # Empty
                  /\ Head(rest) = "."
                  /\ AllIn(Tail(rest), Digits)
                  /\ (k > 0 \/ Len(rest) > 1)

IsExponentPart(s) ==
    \/ s = Empty
    \/ /\ Len(s) >= 2
       /\ Head(s) \in {"e", "E"}
       /\ IF s[2] \in {"+", "-"} THEN IsDecimalDigits(SubSeq(s, 3, Len(s)))
                                 ELSE IsDecimalDigits(Tail(s))

IsStrUnsignedDecimalLiteral(s) ==
    \/ s = <<"I", "n", "f", "i", "n", "i", "t", "y">>
    \/ \E k \in 1..Len(s) :
           IsUnsignedMantissa(SubSeq(s, 1, k)) /\ IsExponentPart(SubSeq(s, k + 1, Len(s)))

IsStrDecimalLiteral(s) ==
    IF s # Empty /\ Head(s) \in {"+", "-"} THEN IsStrUnsignedDecimalLiteral(Tail(s))
                                            ELSE IsStrUnsignedDecimalLiteral(s)

IsNonDecimalIntegerLiteral(s) ==
    /\ Len(s) >= 3
    /\ s[1] = "0"
    /\ \/ s[2] \in {"x", "X"}
          /\ AllIn(SubSeq(s, 3, Len(s)), Digits \cup {"a", "b", "c", "d", "e", "f", "A", "B", "C", "D", "E", "F"})
       \/ s[2] \in {"o", "O"} /\ AllIn(SubSeq(s, 3, Len(s)), {"0", "1", "2", "3", "4", "5", "6", "7"})
       \/ s[2] \in {"b", "B"} /\ AllIn(SubSeq(s, 3, Len(s)), {"0", "1"})

(* isNaN(str): Number(str) is NaN. The empty or blank string converts to 0. *)
isNaN(str) ==
    LET t == trim(str)
    IN  ~(t = Empty \/ IsStrDecimalLiteral(t) \/ IsNonDecimalIntegerLiteral(t))

(* isNaN(parseFloat(str)): no prefix of the left-trimmed text is a decimal literal. *)
parseFloatIsNaN(str) ==
    LET t == trimStart(str)
    IN  ~\E k \in 1..Len(t) : IsStrDecimalLiteral(SubSeq(t, 1, k))

isNumeric(str) == ~isNaN(str) /\ ~parseFloatIsNaN(str)

isJson(text) == text # Empty /\ text[1] = "{" /\ text[Len(text)] = "}"

(* JSON.parse and JSON.stringify, for documents made of objects, strings   *)
(* and unsigned integers, over text without the backslash, the minus sign, *)
(* the point and the letters of true, false, null and of an exponent.      *)
JsonWhiteSpace == {" ", "\n"}

Indent == 4

NoParse == [ok |-> FALSE, value |-> <<>>, next |-> 0]
Parsed(value, next) == [ok |-> TRUE, value |-> value, next |-> next]

RECURSIVE skipWhiteSpace(_, _)
skipWhiteSpace(text, i) ==
    IF i <= Len(text) /\ text[i] \in JsonWhiteSpace THEN skipWhiteSpace(text, i + 1) ELSE i

(* The index of the first character from i on that is in S, or Len + 1. *)
RECURSIVE firstIn(_, _, _)
firstIn(text, i, S) ==
    IF i <= Len(text) /\ text[i] \notin S THEN firstIn(text, i + 1, S) ELSE i

RECURSIVE firstNotIn(_, _, _)
firstNotIn(text, i, S) ==
    IF i <= Len(text) /\ text[i] \in S THEN firstNotIn(text, i + 1, S) ELSE i

(* A string token opening at i: up to the next quote, no raw line break. *)
parseString(text, i) ==
    LET j == firstIn(text, i + 1, {"\""})
    IN  IF i > Len(text) \/ text[i] # "\"" \/ j > Len(text) THEN NoParse
        ELSE IF \E k \in (i + 1)..(j - 1) : text[k] = "\n" THEN NoParse
        ELSE Parsed([kind |-> "string", chars |-> SubSeq(text, i + 1, j - 1)], j + 1)

(* A number token at i: 0, or a run of digits that does not start with 0. *)
parseNumber(text, i) ==
    LET j == IF text[i] = "0" THEN i + 1 ELSE firstNotIn(text, i, Digits)
    IN  Parsed([kind |-> "number", digits |-> SubSeq(text, i, j - 1)], j)

(* A key that is an array index: such keys are enumerated first, ascending. *)
IsArrayIndex(key) == key = <<"0">> \/ (IsDecimalDigits(key) /\ key[1] # "0")

DigitValue(c) == CHOOSE n \in 0..9 : <<"0", "1", "2", "3", "4", "5", "6", "7", "8", "9">>[n + 1] = c

IndexLess(a, b) ==
    \/ Len(a) < Len(b)
    \/ /\ Len(a) = Len(b)
       /\ \E i \in 1..Len(a) :
              /\ SubSeq(a, 1, i - 1) = SubSeq(b, 1, i - 1)
              /\ DigitValue(a[i]) < DigitValue(b[i])

(* Defining property key of an object: a known key keeps its place. *)
putMember(members, key, value) ==
    IF \E i \in 1..Len(members) : members[i].key = key
    THEN [i \in 1..Len(members) |->
             IF members[i].key = key THEN [key |-> key, value |-> value] ELSE members[i]]
    ELSE Append(members, [key |-> key, value |-> value])

RECURSIVE sortedIndexMembers(_)
sortedIndexMembers(members) ==
    IF members = <<>> THEN <<>>
    ELSE LET m == CHOOSE i \in 1..Len(members) :
                      \A j \in 1..Len(members) : j = i \/ IndexLess(members[i].key, members[j].key)
         IN  <<members[m]>> \o sortedIndexMembers(SubSeq(members, 1, m - 1) \o SubSeq(members, m + 1, Len(members)))

(* The own properties of an object in the order they are enumerated. *)
ownProperties(members) ==
    sortedIndexMembers(SelectSeq(members, LAMBDA m : IsArrayIndex(m.key)))
    \o SelectSeq(members, LAMBDA m : ~IsArrayIndex(m.key))

RECURSIVE parseValue(_, _)
RECURSIVE parseMembers(_, _, _)

(* The members of an object from i on (white space skipped), after `members`. *)
parseMembers(text, i, members) ==
    LET key == parseString(text, i)
        colon == skipWhiteSpace(text, key.next)
        value == parseValue(text, skipWhiteSpace(text, colon + 1))
        after == skipWhiteSpace(text, value.next)
    IN  IF ~key.ok THEN NoParse
        ELSE IF colon > Len(text) \/ text[colon] # ":" THEN NoParse
        ELSE IF ~value.ok \/ after > Len(text) THEN NoParse
        ELSE IF text[after] = "}"
             THEN Parsed([kind |-> "object",
                          members |-> ownProperties(putMember(members, key.value.chars, value.value))],
                         after + 1)
        ELSE IF text[after] = ","
             THEN parseMembers(text, skipWhiteSpace(text, after + 1),
                               putMember(members, key.value.chars, value.value))
        ELSE NoParse

parseValue(text, i) ==
    IF i > Len(text) THEN NoParse
    ELSE IF text[i] = "{"
         THEN LET j == skipWhiteSpace(text, i + 1)
              IN  IF j <= Len(text) /\ text[j] = "}"
                  THEN Parsed([kind |-> "object", members |-> <<>>], j + 1)
                  ELSE parseMembers(text, j, <<>>)
    ELSE IF text[i] = "\"" THEN parseString(text, i)
    ELSE IF text[i] \in Digits THEN parseNumber(text, i)
    ELSE NoParse

JSONparse(text) ==
    LET value == parseValue(text, skipWhiteSpace(text, 1))
    IN  IF value.ok /\ skipWhiteSpace(text, value.next) = Len(text) + 1
        THEN Return(value.value)
        ELSE Throw("SyntaxError")

Spaces(n) == [i \in 1..n |-> " "]

RECURSIVE serialize(_, _)
RECURSIVE serializeMembers(_, _, _)

(* The members from the n-th on, one per line at the given depth. *)
serializeMembers(members, n, depth) ==
    Spaces(Indent * depth) \o <<"\"">> \o members[n].key \o <<"\"", ":", " ">>
    \o serialize(members[n].value, depth)
    \o (IF n < Len(members) THEN <<",", "\n">> \o serializeMembers(members, n + 1, depth)
                            ELSE <<>>)

serialize(value, depth) ==
    CASE value.kind = "number" -> value.digits
      [] value.kind = "string" -> <<"\"">> \o value.chars \o <<"\"">>
      [] value.kind = "object" ->
             IF value.members = <<>> THEN <<"{", "}">>
             ELSE <<"{", "\n">> \o serializeMembers(value.members, 1, depth + 1)
                  \o <<"\n">> \o Spaces(Indent * depth) \o <<"}">>

(* JSON.stringify(obj, null, 4) *)
JSONstringify(obj) == serialize(obj, 0)

(* formatBody trimming what it returns instead of what it reads. *)
formatBodyTrimLast(body) ==
    trim(IF isJson(body) /\ JSONparse(body).type = "normal"
         THEN JSONstringify(JSONparse(body).value)
         ELSE body)

formatBody(body) ==
    LET text == trim(body)
    IN  IF isJson(text) /\ JSONparse(text).type = "normal"
        THEN JSONstringify(JSONparse(text).value)
        ELSE text

----------------------------------------------------------------------------
(* MessageUtils: validation, request construction, seed import. *)

BodyNotDefined == <<"Body is not defined.">>
NameNotUnique == <<"Attribute Name is not unique.">>
NameUndefined(index) == <<"Attribute Name at position ", index, " is undefined.">>
ValueUndefined(index) == <<"Attribute Value at position ", index, " is undefined.">>
NotANumber(index) == <<"Attribute value at position ", index, " is not a number.">>
DataTypeInvalid(index) == <<"Attribute Data Type at position ", index, " is invalid.">>

(* values.indexOf(value) >= 0 *)
Includes(values, value) == \E i \in 1..Len(values) : values[i] = value

(* The reduce of isPropertyUnique over the first n objects. *)
RECURSIVE propertyValues(_, _, _)
propertyValues(key, objects, n) ==
    IF n = 0 THEN <<>>
    ELSE LET values == propertyValues(key, objects, n - 1)
             value == objects[n][key]
         IN  IF Includes(values, value) THEN values ELSE Append(values, value)

(* isPropertyUnique comparing each object with its predecessor only. *)
isPropertyUniqueAdjacent(key, objects) ==
    \A n \in 2..Len(objects) : objects[n][key] # objects[n - 1][key]

isPropertyUnique(key, objects) ==
    Len(propertyValues(key, objects, Len(objects))) = Len(objects)

(* attributeErrors with the checks chained by else: the first violation ends them. *)
attributeErrorsShortCircuit(attribute, index) ==
    IF attribute.name = "" THEN <<NameUndefined(index)>>
    ELSE IF attribute.value = Empty THEN <<ValueUndefined(index)>>
    ELSE IF attribute.type = "Number" /\ ~isNumeric(attribute.value) THEN <<NotANumber(index)>>
    ELSE IF attribute.type \notin getAttributeTypes THEN <<DataTypeInvalid(index)>>
    ELSE <<>>

(* The body of the forEach callback of validateMessage. *)
attributeErrors(attribute, index) ==
    (IF attribute.name = "" THEN <<NameUndefined(index)>> ELSE <<>>)
    \o (IF attribute.value = Empty THEN <<ValueUndefined(index)>>
        ELSE IF attribute.type = "Number" /\ ~isNumeric(attribute.value)
             THEN <<NotANumber(index)>>
             ELSE <<>>)
    \o (IF ~\E type \in getAttributeTypes : attribute.type = type
        THEN <<DataTypeInvalid(index)>>
        ELSE <<>>)

(* forEachAttribute visiting the attributes from the last to the first. *)
RECURSIVE forEachAttributeReversed(_, _)
forEachAttributeReversed(attributes, index) ==
    IF index >= Len(attributes) THEN <<>>
    ELSE forEachAttributeReversed(attributes, index + 1) \o attributeErrors(attributes[index + 1], index)

RECURSIVE forEachAttribute(_, _)
forEachAttribute(attributes, index) ==
    IF index >= Len(attributes) THEN <<>>
    ELSE attributeErrors(attributes[index + 1], index) \o forEachAttribute(attributes, index + 1)

(* validateMessage returning its list whether or not it is empty. *)
validateMessageAlwaysList(message) ==
    Return(Some((IF message.body = Empty THEN <<BodyNotDefined>> ELSE <<>>)
                \o (IF ~isPropertyUnique("name", message.attributes)
                    THEN <<NameNotUnique>> ELSE <<>>)
                \o forEachAttribute(message.attributes, 0)))

(* message.attributes is undefined on a raw record without the field:    *)
(* objects.reduce in isPropertyUnique then throws a TypeError.            *)
validateMessage(message) ==
    IF "attributes" \notin DOMAIN message THEN Throw(TypeError)
    ELSE LET errors ==
                 (IF "body" \notin DOMAIN message \/ message.body = Empty
                  THEN <<BodyNotDefined>> ELSE <<>>)
                 \o (IF ~isPropertyUnique("name", message.attributes)
                     THEN <<NameNotUnique>> ELSE <<>>)
                 \o forEachAttribute(message.attributes, 0)
         IN  Return(IF Len(errors) # 0 THEN Some(errors) ELSE Undefined)

(* mapAttribute mapping a type it does not know like a String. *)
mapAttributeDefaultString(attribute) ==
    IF attribute.type = "Binary"
    THEN Return([DataType |-> attribute.type, BinaryValue |-> attribute.value])
    ELSE Return([DataType |-> attribute.type, StringValue |-> attribute.value])

(* mapAttribute without the case of the Binary type. *)
mapAttributeNoBinary(attribute) ==
    IF attribute.type \in {"String", "Number"}
    THEN Return([DataType |-> attribute.type, StringValue |-> attribute.value])
    ELSE Throw("Could not map unknown attribute type")

mapAttribute(attribute) ==
    CASE attribute.type \in {"String", "Number"} ->
             Return([DataType |-> attribute.type, StringValue |-> attribute.value])
      [] attribute.type = "Binary" ->
             Return([DataType |-> attribute.type, BinaryValue |-> attribute.value])
      [] OTHER -> Throw("Could not map unknown attribute type")

(* The reduce of toRequest over the first n attributes: a later attribute  *)
(* of the same name replaces the earlier entry of the map.                 *)
RECURSIVE attributeMap(_, _)
attributeMap(attributes, n) ==
    IF n = 0 THEN <<>>
    ELSE LET map == attributeMap(attributes, n - 1)
             attribute == attributes[n]
         IN  (attribute.name :> mapAttribute(attribute).value) @@ map

toRequest(queryUrl, message) ==
    IF \E i \in 1..Len(message.attributes) : mapAttribute(message.attributes[i]).type = "throw"
    THEN Throw("Could not map unknown attribute type")
    ELSE Return([QueueUrl |-> queryUrl,
                 MessageBody |-> message.body,
                 MessageAttributes |-> attributeMap(message.attributes, Len(message.attributes))])

(* toMessage, with the identifiers generateRandomId gave: id for the       *)
(* message, attributeIds[i] for its i-th attribute. formatBody(undefined)  *)
(* throws a TypeError on body.trim().                                      *)
toMessage(item, id, attributeIds) ==
    LET message == item
    IN  IF "body" \notin DOMAIN message THEN Throw(TypeError)
        ELSE IF validateMessage(message).type = "throw" THEN validateMessage(message)
        ELSE Return([id |-> id,
                     body |-> formatBody(message.body),
                     attributes |->
                         IF "attributes" \in DOMAIN message
                         THEN [i \in 1..Len(message.attributes) |->
                                  [id |-> attributeIds[i],
                                   name |-> message.attributes[i].name,
                                   type |-> message.attributes[i].type,
                                   value |-> message.attributes[i].value]]
                         ELSE <<>>,
                     errors |-> validateMessage(message).value])

----------------------------------------------------------------------------
(* The values the utilities are applied to. *)

Names == {"", "a", "b"}
Types == getAttributeTypes \cup {"Text"}       \* "Text": a type outside the catalog
Values == {Empty, <<"5">>, <<"x">>}
Bodies == {Empty, <<" ">>, <<"b">>}
QueueUrl == "https://sqs/queue"

Attributes == [id : {0}, name : Names, type : Types, value : Values]

(* Lists of any attributes, and longer lists in which only the names vary. *)
NamedAttributes == [id : {0}, name : Names, type : {"String"}, value : {<<"x">>}]

AttributeLists == SeqsUpTo(Attributes, MaxAttrs) \cup SeqsUpTo(NamedAttributes, MaxNames)

SqsMessages == [id : {0}, body : Bodies, attributes : AttributeLists]

NoCall == [fn |-> "none", result |-> Return(Undefined)]

UtilsInit ==
    /\ input \in SqsMessages
    /\ output = NoCall

CallValidateMessage ==
    /\ output' = [fn |-> "validateMessage", result |-> validateMessage(input)]
    /\ UNCHANGED <<input, appVars>>

CallToRequest ==
    /\ output' = [fn |-> "toRequest", result |-> toRequest(QueueUrl, input)]
    /\ UNCHANGED <<input, appVars>>

(* App: the configuration taken from the environment, every variable set. *)
Configured ==
    [region |-> "r", accessKeyId |-> "k", secretAccessKey |-> "s", sessionToken |-> "t",
     queueUrl |-> QueueUrl]

(* Settings as mounted: its three useState values and the memoized         *)
(* testConnection, which closes over the `testing` of the render that made *)
(* it.                                                                     *)
NewSettings ==
    [mounted |-> TRUE, connectionStatus |-> "unknown", connectionError |-> Undefined,
     testing |-> FALSE, testConnection |-> [testing |-> FALSE]]

AppIdle ==
    /\ phase = "init"
    /\ seed = Undefined
    /\ messages = <<>>
    /\ components = <<>>
    /\ config = Configured
    /\ settings = NewSettings
    /\ inflight = <<>>
    /\ sqsCalls = 0
    /\ resolved = Undefined
    /\ events = 0

InitUtils == UtilsInit /\ AppIdle

NextUtils ==
    \/ CallValidateMessage
    \/ CallToRequest

SpecUtils == InitUtils /\ [][NextUtils]_vars

----------------------------------------------------------------------------
(* formatBody applied to bodies: every short text of BodyChars, and JSON   *)
(* documents, well formed or not, bare or inside white space.              *)

BodyChars == {"{", "}", " ", "\n", "a"}

JsonBodies ==
    { <<"{", "\"", "a", "\"", ":", "1", "}">>,
      <<"{", "\"", "a", "\"", ":", "1", ",", "\"", "1", "\"", ":", "\"", "a", "\"", "}">>,
      <<"{", "\"", "a", "\"", ":", "{", "\"", "a", "\"", ":", "1", "1", "}", "}">>,
      <<"{", "\"", "a", "\"", ":", "1", ",", "\"", "a", "\"", ":", "1", "1", "}">>,
      <<"{", "\"", "a", "\"", ":", "1", ",", "}">>,
      <<"{", " ", "\"", "a", "\"", " ", ":", " ", "1", " ", "}">>,
      <<"{", "a", ":", "1", "}">>,
      <<"{", "\"", "a", "\"", ":", "{", "}", "}">>,
      <<"{", "\"", "a", "\"", ":", "\"", "{", "\"", "}">>,
      <<"{", "\"", "a", "\"", ":", "1", "}", "{", "\"", "a", "\"", ":", "1", "}">>,
      <<"{", "\"", "a", "\"", ":", "1", ",", "\"", "1", "1", "\"", ":", "1", ",", "\"", "1", "\"", ":", "1", "}">>,
      <<"{", "\"", "a", "\n", "\"", ":", "1", "}">>,
      <<"{", "\"", "a", "\"", ":", "0", "1", "}">>,
      <<"{", "\"", "a", "\"", "}">> }

FormatBodies ==
    SeqsUpTo(BodyChars, MaxBodyLen)
    \cup JsonBodies
    \cup {<<" ">> \o text \o <<"\n", " ">> : text \in JsonBodies}

InitFormat ==
    /\ input \in FormatBodies
    /\ output = NoCall
    /\ AppIdle

CallFormatBody ==
    /\ output' = [fn |-> "formatBody", result |-> Return(formatBody(input))]
    /\ UNCHANGED <<input, appVars>>

(* formatBody applied to a body it returned. *)
CallFormatBodyAgain ==
    /\ output.fn = "formatBody"
    /\ input' = output.result.value
    /\ output' = [fn |-> "formatBody", result |-> Return(formatBody(output.result.value))]
    /\ UNCHANGED appVars

NextFormat ==
    \/ CallFormatBody
    \/ CallFormatBodyAgain

SpecFormat == InitFormat /\ [][NextFormat]_vars

----------------------------------------------------------------------------
(* The application: App (seed import, queue client), Messages (the list),  *)
(* Message and MessageAttribute (the editors of one list item).            *)

(* Raw records a local messages.js may hold: of unvalidated shape, so a    *)
(* field may be missing.                                                    *)
RawAttribute(name, type, value) == [name |-> name, type |-> type, value |-> value]

RawItems ==
    { [body |-> <<"b">>, attributes |-> <<>>],
      [body |-> <<" ">>, attributes |-> <<>>],
      [body |-> <<"{", " ", "}">>, attributes |-> <<RawAttribute("a", "Number", <<"x">>)>>],
      [body |-> <<"b">>, attributes |-> <<RawAttribute("a", "Text", <<"5">>)>>],
      [body |-> <<"b">>],
      [attributes |-> <<>>] }

(* The module import('../../messages.js') delivers: none (no file), or a   *)
(* list of records.                                                        *)
Seeds ==
    {Undefined}
    \cup {Some(items) : items \in SeqsUpTo(RawItems, 1)}
    \cup {Some(<<[body |-> <<"b">>, attributes |-> <<>>], item>>) :
              item \in {[body |-> <<" ">>, attributes |-> <<>>], [body |-> <<"b">>]}}

SqsErrors == {<<"NetworkingError">>}

UiBodies == Bodies
UiNames == {"", "a"}
UiValues == {Empty, <<"5">>}

Draft(id) == [id |-> id, body |-> Empty, attributes |-> <<>>, errors |-> Undefined]

UtilsIdle ==
    /\ input = [id |-> 0, body |-> Empty, attributes |-> <<>>]
    /\ output = NoCall

Init ==
    /\ UtilsIdle
    /\ phase = "init"
    /\ seed \in Seeds
    /\ messages = <<>>
    /\ components = <<>>
    /\ inflight = <<>>
    /\ sqsCalls = 0
    /\ resolved = Undefined
    /\ events = 0
    /\ config = Configured
    /\ settings = NewSettings

(* items.map(MessageUtils.toMessage) with the identifiers drawn: ids[i]    *)
(* for item i, attributeIds[i][j] for its j-th attribute.                  *)
toMessages(items, ids, attributeIds) ==
    [i \in 1..Len(items) |-> toMessage(items[i], ids[i], attributeIds[i])]

(* The number of attributes of a raw record. *)
RawLen(item) == IF "attributes" \in DOMAIN item THEN Len(item.attributes) ELSE 0

Items(s) == IF s = Undefined THEN <<>> ELSE s[1]

MaxRawLen(items) ==
    IF items = <<>> THEN 0
    ELSE CHOOSE n \in {RawLen(items[i]) : i \in 1..Len(items)} :
             \A i \in 1..Len(items) : RawLen(items[i]) <= n

(* The import of a present messages.js returns from every toMessage. *)
Imports(items, ids, attributeIds) ==
    \A i \in 1..Len(items) : toMessages(items, ids, attributeIds)[i].type = "normal"

(* Message as mounted: sending and sent (useState), and the memoized       *)
(* sendMessage, which closes over the `sending` of the render that made    *)
(* it. useCallback(..., [props]) makes a new one when Messages renders     *)
(* and hands the item a new props object, and keeps the old one when the   *)
(* item renders for a change of its own state.                             *)
NewMessage == [sending |-> FALSE, sent |-> FALSE, sendMessage |-> [sending |-> FALSE]]

(* The rank of item i among the items of its list with the same key. *)
Occurrence(list, i) == Cardinality({j \in 1..i : list[j].id = list[i].id})

(* The item of the rendered list whose component item i of the new list    *)
(* keeps (the same key, key={message.id}), 0 when it is mounted anew.      *)
Previous(list, newList, i) ==
    LET same == {j \in 1..Len(list) : /\ list[j].id = newList[i].id
                                      /\ Occurrence(list, j) = Occurrence(newList, i)}
    IN  IF same = {} THEN 0 ELSE CHOOSE j \in same : TRUE

(* Messages renders newList: kept components get new props, so a new       *)
(* sendMessage over their current state.                                   *)
render(list, items, newList) ==
    [i \in 1..Len(newList) |->
        IF Previous(list, newList, i) = 0
        THEN NewMessage
        ELSE LET item == items[Previous(list, newList, i)]
             IN  [item EXCEPT !.sendMessage = [sending |-> item.sending]]]

(* Where the component at position k is after the render, 0 when it was    *)
(* unmounted.                                                              *)
relocate(list, newList, k) ==
    LET kept == {i \in 1..Len(newList) : Previous(list, newList, i) = k}
    IN  IF k = 0 \/ kept = {} THEN 0 ELSE CHOOSE i \in kept : TRUE

(* The pending sends with their components relocated. *)
relocated(list, newList, flights) ==
    [n \in 1..Len(flights) |->
        [flights[n] EXCEPT !.component = relocate(list, newList, flights[n].component)]]

(* setSent and setSending of the component at position k; a component no   *)
(* longer mounted ignores them.                                            *)
setSending(items, k, sending, sent) ==
    IF k = 0 THEN items
    ELSE [items EXCEPT ![k].sending = sending, ![k].sent = sent]

(* setMessages(newList) and the render it causes, the components holding   *)
(* the state given.                                                        *)
setMessages(newList, items) ==
    /\ messages' = newList
    /\ components' = render(messages, items, newList)
    /\ inflight' = relocated(messages, newList, inflight)

(* App: the effect that imports messages.js. A missing file, or an         *)
(* exception inside then(), reaches catch(): one empty draft.              *)
LoadSeed ==
    /\ phase = "init"
    /\ phase' = "ready"
    /\ seed' = Undefined
    /\ LET items == Items(seed)
       IN  \E ids \in [1..Len(items) -> generateRandomId],
              attributeIds \in [1..Len(items) -> [1..MaxRawLen(items) -> generateRandomId]],
              draftId \in generateRandomId :
               IF seed # Undefined /\ Imports(items, ids, attributeIds)
               THEN messages' = [i \in 1..Len(items) |->
                                    toMessages(items, ids, attributeIds)[i].value]
               ELSE messages' = <<Draft(draftId)>>
    /\ components' = [i \in 1..Len(messages') |-> NewMessage]
    /\ UNCHANGED <<inflight, sqsCalls, resolved, events, utilVars, settingsVars>>

UserEvent ==
    /\ phase = "ready"
    /\ events < MaxEvents
    /\ events' = events + 1

(* Messages.addMessage *)
addMessage(list, id) == Append(list, Draft(id))

(* Messages.updateMessage *)
updateMessage(list, messageId, newMessage) ==
    [i \in 1..Len(list) |-> IF list[i].id = messageId THEN newMessage ELSE list[i]]

(* Messages.removeMessage *)
removeMessage(list, messageId) ==
    SelectSeq(list, LAMBDA message : message.id # messageId)

(* setErrors of Messages.sendMessage, over the `messages` its closure holds. *)
setErrors(list, messageId, newErrors) ==
    [i \in 1..Len(list) |->
        IF list[i].id = messageId THEN [list[i] EXCEPT !.errors = Some(newErrors)]
                                  ELSE list[i]]

(* Message.updateMessage: the props of the item with the edited fields and *)
(* without errors, handed to props.onChange.                               *)
edited(props, body, attributes) ==
    [id |-> props.id, body |-> body, attributes |-> attributes, errors |-> Undefined]

(* Message.updateMessage of item k: props.onChange and setSent(false). *)
Edit(k, body, attributes) ==
    setMessages(updateMessage(messages, messages[k].id, edited(messages[k], body, attributes)),
                [components EXCEPT ![k].sent = FALSE])

AddMessage ==
    /\ UserEvent
    /\ \E id \in generateRandomId : setMessages(addMessage(messages, id), components)
    /\ UNCHANGED <<phase, seed, sqsCalls, resolved, utilVars, settingsVars>>

(* Message.updateBody *)
UpdateBody(k) ==
    /\ UserEvent
    /\ \E body \in UiBodies \ {messages[k].body} : Edit(k, body, messages[k].attributes)
    /\ UNCHANGED <<phase, seed, sqsCalls, resolved, utilVars, settingsVars>>

(* Message.addAttribute *)
AddAttribute(k) ==
    /\ UserEvent
    /\ \E id \in generateRandomId :
           Edit(k, messages[k].body,
                Append(messages[k].attributes,
                       [id |-> id, name |-> "", type |-> "String", value |-> Empty]))
    /\ UNCHANGED <<phase, seed, sqsCalls, resolved, utilVars, settingsVars>>

(* MessageAttribute.onChange (name, type or value), Message.updateAttribute *)
UpdateAttribute(k, j) ==
    /\ UserEvent
    /\ LET props == messages[k].attributes[j]
       IN  \E newAttribute \in
                  {[props EXCEPT !.name = name] : name \in UiNames}
                  \cup {[props EXCEPT !.type = type] : type \in getAttributeTypes}
                  \cup {[props EXCEPT !.value = value] : value \in UiValues} :
               /\ newAttribute # props
               /\ Edit(k, messages[k].body,
                       [i \in 1..Len(messages[k].attributes) |->
                           IF messages[k].attributes[i].id = props.id
                           THEN newAttribute
                           ELSE messages[k].attributes[i]])
    /\ UNCHANGED <<phase, seed, sqsCalls, resolved, utilVars, settingsVars>>

(* MessageAttribute.onRemove, Message.removeAttribute *)
RemoveAttribute(k, j) ==
    /\ UserEvent
    /\ Edit(k, messages[k].body,
            SelectSeq(messages[k].attributes,
                      LAMBDA attribute : attribute.id # messages[k].attributes[j].id))
    /\ UNCHANGED <<phase, seed, sqsCalls, resolved, utilVars, settingsVars>>

(* Message.removeMessage *)
RemoveMessage(k) ==
    /\ UserEvent
    /\ setMessages(removeMessage(messages, messages[k].id), components)
    /\ UNCHANGED <<phase, seed, sqsCalls, resolved, utilVars, settingsVars>>

(* The message Message.sendMessage hands to props.onSend. *)
sentMessage(props) == [id |-> props.id, body |-> props.body, attributes |-> props.attributes]

(* A click on Send of item k that ends in setErrors: Messages renders the  *)
(* list with the errors while the item is sending, then onSend returns     *)
(* false to Message.sendMessage, which sets sent and sending to false.     *)
Refused(k, newErrors) ==
    /\ messages' = setErrors(messages, messages[k].id, newErrors)
    /\ components' = setSending(render(messages, setSending(components, k, TRUE, FALSE),
                                       messages'),
                                k, FALSE, FALSE)
    /\ resolved' = Some([messageId |-> messages[k].id, value |-> FALSE])
    /\ UNCHANGED <<inflight, sqsCalls>>

(* A click on Send of item k that reaches sqs.sendMessage: the item is     *)
(* sending, and renders for its own state only.                            *)
Called(k, request) ==
    /\ inflight' = Append(inflight, [messageId |-> messages[k].id,
                                     messages |-> messages,
                                     request |-> request,
                                     component |-> k])
    /\ components' = setSending(components, k, TRUE, FALSE)
    /\ sqsCalls' = sqsCalls + 1
    /\ UNCHANGED <<messages, resolved>>

(* Send handing the message to the queue client without validating it. *)
SendUnvalidated(k) ==
    /\ UserEvent
    /\ messages[k].errors = Undefined
    /\ ~components[k].sendMessage.sending
    /\ LET request == toRequest(config.queueUrl, sentMessage(messages[k]))
       IN  IF request.type = "throw"
           THEN Refused(k, <<<<request.value>>>>)
           ELSE Called(k, request.value)
    /\ UNCHANGED <<phase, seed, utilVars, settingsVars>>

(* A click on Send of item k: Message.sendMessage, Messages.sendMessage    *)
(* and, for a message without errors, App.sendMessage up to the call of    *)
(* sqs.sendMessage. The button is disabled while the item has errors, and  *)
(* the handler returns at once when the `sending` it closed over is true.  *)
(* An exception of toRequest rejects the promise, which the catch of       *)
(* Messages.sendMessage handles before any other event.                    *)
(* The handlers of a render close over the list of that render, and every  *)
(* setMessages renders anew before the next event: a click reads the       *)
(* current list, a callback of a pending send the list of its click.       *)
Send(k) ==
    /\ UserEvent
    /\ messages[k].errors = Undefined
    /\ ~components[k].sendMessage.sending
    /\ LET errors == validateMessage(sentMessage(messages[k])).value
           request == toRequest(config.queueUrl, sentMessage(messages[k]))
       IN  IF errors # Undefined
           THEN Refused(k, errors[1])
           ELSE IF request.type = "throw"
           THEN Refused(k, <<<<request.value>>>>)
           ELSE Called(k, request.value)
    /\ UNCHANGED <<phase, seed, utilVars, settingsVars>>

Without(s, n) == SubSeq(s, 1, n - 1) \o SubSeq(s, n + 1, Len(s))

(* The callback of sqs.sendMessage without an error: resolve(true), and    *)
(* Message.sendMessage goes on with setSent(true) and setSending(false).   *)
SqsSuccess(n) ==
    /\ inflight' = Without(inflight, n)
    /\ components' = setSending(components, inflight[n].component, FALSE, TRUE)
    /\ resolved' = Some([messageId |-> inflight[n].messageId, value |-> TRUE])
    /\ UNCHANGED <<phase, seed, messages, sqsCalls, events, utilVars, settingsVars>>

(* The callback with an error: reject(error.message), caught by            *)
(* Messages.sendMessage, whose setErrors maps the `messages` of the render *)
(* that created the callback; Message.sendMessage then goes on with        *)
(* setSent(false) and setSending(false). React renders for setErrors       *)
(* before those two run, or (batched) once for all three.                  *)
SqsFailure(n) ==
    /\ \E error \in SqsErrors, batched \in BOOLEAN :
           LET newList == setErrors(inflight[n].messages, inflight[n].messageId, <<error>>)
               k == inflight[n].component
           IN  /\ messages' = newList
               /\ components' =
                      IF batched
                      THEN render(messages, setSending(components, k, FALSE, FALSE), newList)
                      ELSE setSending(render(messages, components, newList),
                                      relocate(messages, newList, k), FALSE, FALSE)
               /\ inflight' = relocated(messages, newList, Without(inflight, n))
    /\ resolved' = Some([messageId |-> inflight[n].messageId, value |-> FALSE])
    /\ UNCHANGED <<phase, seed, sqsCalls, events, utilVars, settingsVars>>

Next ==
    \/ LoadSeed
    \/ AddMessage
    \/ \E k \in 1..Len(messages) : UpdateBody(k)
    \/ \E k \in 1..Len(messages) : AddAttribute(k)
    \/ \E k \in 1..Len(messages) : \E j \in 1..Len(messages[k].attributes) : UpdateAttribute(k, j)
    \/ \E k \in 1..Len(messages) : \E j \in 1..Len(messages[k].attributes) : RemoveAttribute(k, j)
    \/ \E k \in 1..Len(messages) : RemoveMessage(k)
    \/ \E k \in 1..Len(messages) : Send(k)
    \/ \E n \in 1..Len(inflight) : SqsSuccess(n)
    \/ \E n \in 1..Len(inflight) : SqsFailure(n)

Spec == Init /\ [][Next]_vars

----------------------------------------------------------------------------
(* The application: App's configuration and the Settings tab, with the     *)
(* connection test. The message list stays as it is before the import.     *)

(* Values a configuration field takes, from the environment or typed. *)
FieldValues(field) ==
    CASE field = "region" -> {"", "r", "rr"}
      [] field = "accessKeyId" -> {"", "k"}
      [] field = "secretAccessKey" -> {"", "s"}
      [] field = "sessionToken" -> {"", "t"}
      [] field = "queueUrl" -> {"", QueueUrl}

Fields == {"region", "accessKeyId", "secretAccessKey", "sessionToken", "queueUrl"}

Configs ==
    [region : FieldValues("region"), accessKeyId : FieldValues("accessKeyId"),
     secretAccessKey : FieldValues("secretAccessKey"),
     sessionToken : FieldValues("sessionToken"), queueUrl : FieldValues("queueUrl")]

(* Settings: valid *)
valid(props) == \A key \in DOMAIN props : props[key] # ""

(* The message App.testConnection sends. *)
ConnectionTest(id) ==
    [id |-> id,
     body |-> <<"c", "o", "n", "n", "e", "c", "t", "i", "o", "n", " ", "t", "e", "s", "t">>,
     attributes |-> <<>>]

InitSettings ==
    /\ UtilsIdle
    /\ phase = "init"
    /\ seed = Undefined
    /\ messages = <<>>
    /\ components = <<>>
    /\ inflight = <<>>
    /\ sqsCalls = 0
    /\ resolved = Undefined
    /\ events = 0
    /\ config \in Configs
    /\ settings = NewSettings

SettingsEvent ==
    /\ settings.mounted
    /\ events < MaxEvents
    /\ events' = events + 1

(* Settings.onFieldChange: setConfig with a new object, so App makes a new *)
(* sqs, sendMessage and testConnection, and Settings a new testConnection  *)
(* over its current `testing`.                                             *)
OnFieldChange(name) ==
    /\ SettingsEvent
    /\ \E value \in FieldValues(name) \ {config[name]} :
           config' = [config EXCEPT ![name] = value]
    /\ settings' = [settings EXCEPT !.connectionError = Some(Empty),
                                    !.testConnection = [testing |-> settings.testing]]
    /\ UNCHANGED <<phase, seed, messages, components, inflight, sqsCalls, resolved, utilVars>>

(* A click on Test Connection, enabled when valid: Settings.testConnection *)
(* returns at once when the `testing` it closed over is true; otherwise it *)
(* sets its state and App.testConnection and App.sendMessage run up to the *)
(* call of sqs.sendMessage. Settings renders for its own state only.       *)
TestConnection ==
    /\ SettingsEvent
    /\ valid(config)
    /\ ~settings.testConnection.testing
    /\ settings' = [settings EXCEPT !.testing = TRUE,
                                    !.connectionStatus = "unknown",
                                    !.connectionError = Some(Empty)]
    /\ \E id \in generateRandomId :
           inflight' = Append(inflight,
                              [request |-> toRequest(config.queueUrl, ConnectionTest(id)).value,
                               component |-> 1])
    /\ sqsCalls' = sqsCalls + 1
    /\ UNCHANGED <<phase, seed, messages, components, resolved, config, utilVars>>

(* setState of the Settings that started pending test n; one unmounted     *)
(* since ignores it.                                                       *)
settled(n, status, error) ==
    IF inflight[n].component = 0 THEN settings
    ELSE [settings EXCEPT !.connectionStatus = status,
                          !.connectionError = error,
                          !.testing = FALSE]

(* The callback of sqs.sendMessage without an error: App.testConnection    *)
(* returns 'ok'; setConnectionStatus(status), finally setTesting(false).   *)
TestSucceeds(n) ==
    /\ settings' = settled(n, "ok", settings.connectionError)
    /\ inflight' = Without(inflight, n)
    /\ UNCHANGED <<phase, seed, messages, components, sqsCalls, resolved, events, config,
                   utilVars>>

(* The callback with an error: the rejection passes App.testConnection to  *)
(* the catch of Settings.testConnection, then finally setTesting(false).   *)
TestFails(n) ==
    /\ \E error \in SqsErrors : settings' = settled(n, "failed", Some(error))
    /\ inflight' = Without(inflight, n)
    /\ UNCHANGED <<phase, seed, messages, components, sqsCalls, resolved, events, config,
                   utilVars>>

(* App.updateTab: the Settings tab unmounts when the Messages tab is       *)
(* chosen and mounts anew, with initial state, when chosen again.          *)
UpdateTab ==
    /\ events < MaxEvents
    /\ events' = events + 1
    /\ settings' = [NewSettings EXCEPT !.mounted = ~settings.mounted]
    /\ inflight' = [n \in 1..Len(inflight) |-> [inflight[n] EXCEPT !.component = 0]]
    /\ UNCHANGED <<phase, seed, messages, components, sqsCalls, resolved, config, utilVars>>

NextSettings ==
    \/ \E name \in Fields : OnFieldChange(name)
    \/ TestConnection
    \/ \E n \in 1..Len(inflight) : TestSucceeds(n)
    \/ \E n \in 1..Len(inflight) : TestFails(n)
    \/ UpdateTab

SpecSettings == InitSettings /\ [][NextSettings]_vars

----------------------------------------------------------------------------
(* Properties of the utilities (under SpecUtils). *)

Range(s) == {s[i] : i \in 1..Len(s)}

Validated == output.fn = "validateMessage"

(* The error list of a validation result, empty when the result is absent. *)
ErrorsOf(result) == IF result.value = Undefined THEN <<>> ELSE result.value[1]

IsValid(message) == validateMessage(message) = Return(Undefined)

SharesName(attributes) ==
    \E i, j \in 1..Len(attributes) : i # j /\ attributes[i].name = attributes[j].name

(* The errors the rules of the validator call for, rule by rule. *)
ViolationsAt(attribute, index) ==
    {e \in {NameUndefined(index)} : attribute.name = ""}
    \cup {e \in {ValueUndefined(index)} : attribute.value = Empty}
    \cup {e \in {NotANumber(index)} :
              attribute.value # Empty /\ attribute.type = "Number" /\ ~isNumeric(attribute.value)}
    \cup {e \in {DataTypeInvalid(index)} : attribute.type \notin {"String", "Number", "Binary"}}

Violations(message) ==
    {e \in {BodyNotDefined} : message.body = Empty}
    \cup {e \in {NameNotUnique} : SharesName(message.attributes)}
    \cup UNION {ViolationsAt(message.attributes[i], i - 1) : i \in 1..Len(message.attributes)}

(* C1: validateMessage returns exactly the errors of the violated rules:   *)
(* no error without its violation, no violation left unreported.           *)
C1_ErrorsAreExactlyViolations ==
    Validated =>
        /\ output.result.type = "normal"
        /\ Range(ErrorsOf(output.result)) = Violations(input)

C1_Witness ==
    /\ Validated
    /\ \E i \in 1..Len(input.attributes) :
           /\ input.attributes[i].name = ""
           /\ input.attributes[i].value = Empty
           /\ input.attributes[i].type = "Number"
           /\ {NameUndefined(i - 1), ValueUndefined(i - 1)} \subseteq Range(ErrorsOf(output.result))
           /\ NotANumber(i - 1) \notin Range(ErrorsOf(output.result))

Count(s, e) == Cardinality({i \in 1..Len(s) : s[i] = e})

(* C8: one 'Attribute Name is not unique.' error when two or more          *)
(* attributes share a name, however many do; none when all names differ.   *)
C8_OneUniquenessError ==
    Validated =>
        Count(ErrorsOf(output.result), NameNotUnique)
            = (IF SharesName(input.attributes) THEN 1 ELSE 0)

(* Two distinct names, each carried by two attributes. *)
C8_Witness ==
    /\ Validated
    /\ \E i, j, k, l \in 1..Len(input.attributes) :
           /\ Cardinality({i, j, k, l}) = 4
           /\ input.attributes[i].name = input.attributes[j].name
           /\ input.attributes[k].name = input.attributes[l].name
           /\ input.attributes[i].name # input.attributes[k].name
    /\ Count(ErrorsOf(output.result), NameNotUnique) = 1

(* The place of an error in the order body, uniqueness, then per position  *)
(* name, value or number, data type.                                       *)
Rank(e) ==
    IF e = BodyNotDefined THEN 0
    ELSE IF e = NameNotUnique THEN 1
    ELSE 2 + 3 * e[2]
           + (CASE e[1] = NameUndefined(0)[1] -> 0
                [] e[1] = ValueUndefined(0)[1] -> 1
                [] e[1] = NotANumber(0)[1] -> 1
                [] e[1] = DataTypeInvalid(0)[1] -> 2)

(* C9: the error list is ordered: body, uniqueness, then the attributes'   *)
(* errors by ascending position, and name, value/number, type within one.  *)
C9_ErrorsAreOrdered ==
    Validated =>
        LET errors == ErrorsOf(output.result)
        IN  \A p, q \in 1..Len(errors) : p < q => Rank(errors[p]) < Rank(errors[q])

C9_Witness ==
    /\ Validated
    /\ LET errors == ErrorsOf(output.result)
       IN  /\ Len(errors) >= 5
           /\ errors[1] = BodyNotDefined
           /\ errors[2] = NameNotUnique
           /\ \E p, q \in 1..Len(errors) :
                  /\ p < q
                  /\ errors[p] = DataTypeInvalid(0)
                  /\ errors[q] = NameUndefined(1)

(* C10: the result is absent iff no rule is violated, and is otherwise a   *)
(* non-empty list: never an empty one.                                     *)
C10_AbsentIffValid ==
    Validated =>
        /\ output.result.value # Some(<<>>)
        /\ (output.result.value = Undefined) <=> (Violations(input) = {})

C10_Witness ==
    /\ Validated
    /\ output.result.value = Undefined
    /\ Len(input.attributes) = MaxAttrs

Requested == output.fn = "toRequest"

(* C3: for a message the validator accepts, toRequest returns the          *)
(* endpoint, the body, and a map with one key per attribute, each entry    *)
(* with the attribute's type and its value under the key of that type.     *)
C3_ValidMessageMapsToRequest ==
    (Requested /\ IsValid(input)) =>
        /\ output.result.type = "normal"
        /\ LET request == output.result.value
               map == request.MessageAttributes
           IN  /\ request.QueueUrl = QueueUrl
               /\ request.MessageBody = input.body
               /\ DOMAIN request = {"QueueUrl", "MessageBody", "MessageAttributes"}
               /\ DOMAIN map = {input.attributes[i].name : i \in 1..Len(input.attributes)}
               /\ Cardinality(DOMAIN map) = Len(input.attributes)
               /\ \A i \in 1..Len(input.attributes) :
                      LET attribute == input.attributes[i]
                      IN  map[attribute.name] =
                              IF attribute.type = "Binary"
                              THEN [DataType |-> "Binary", BinaryValue |-> attribute.value]
                              ELSE [DataType |-> attribute.type, StringValue |-> attribute.value]

C3_Witness ==
    /\ Requested
    /\ IsValid(input)
    /\ output.result.type = "normal"
    /\ \E i, j \in 1..Len(input.attributes) :
           /\ input.attributes[i].type = "Binary"
           /\ input.attributes[j].type = "Number"
    /\ Cardinality(DOMAIN output.result.value.MessageAttributes) = 2

HasUnknownType(message) ==
    \E i \in 1..Len(message.attributes) :
        message.attributes[i].type \notin {"String", "Number", "Binary"}

(* C11: toRequest throws when an attribute, at any position, has a type    *)
(* outside String, Number, Binary: the call yields the exception and no    *)
(* request record, whole or partial.                                       *)
C11_UnknownTypeAborts ==
    (Requested /\ HasUnknownType(input)) =>
        /\ output.result.type = "throw"
        /\ output.result = Throw("Could not map unknown attribute type")

(* The unknown type at the last position, after an attribute that maps. *)
C11_Witness ==
    /\ Requested
    /\ Len(input.attributes) = 2
    /\ input.attributes[1].type = "String"
    /\ input.attributes[2].type = "Text"
    /\ output.result.type = "throw"

----------------------------------------------------------------------------
(* Properties of the application (under Spec). *)

MessageErrors(message) == IF message.errors = Undefined THEN <<>> ELSE message.errors[1]

(* C2: a Send of a message the validator rejects makes no call to the      *)
(* queue client, resolves to false, and attaches the validator's errors to *)
(* the message of that id, leaving every other message as it was.          *)
C2_InvalidMessageIsNotSent ==
    [][\A k \in 1..Len(messages) :
           (Send(k) /\ ~IsValid(sentMessage(messages[k]))) =>
               /\ sqsCalls' = sqsCalls
               /\ inflight' = inflight
               /\ resolved' = Some([messageId |-> messages[k].id, value |-> FALSE])
               /\ Len(messages') = Len(messages)
               /\ \A i \in 1..Len(messages) :
                      IF messages[i].id = messages[k].id
                      THEN messages'[i] =
                               [messages[i] EXCEPT
                                   !.errors = validateMessage(sentMessage(messages[k])).value]
                      ELSE messages'[i] = messages[i]]_vars

(* A rejected Send beside an untouched message, the queue client never called. *)
C2_Witness ==
    /\ sqsCalls = 0
    /\ Len(messages) = 2
    /\ resolved = Some([messageId |-> messages[1].id, value |-> FALSE])
    /\ messages[1].errors = Some(<<BodyNotDefined>>)
    /\ messages[2].id # messages[1].id
    /\ messages[2].errors = Undefined

(* C4: the body rule reads the formatted body: on Send and on import,      *)
(* 'Body is not defined.' is reported once when the formatted body is      *)
(* empty and not at all otherwise.                                         *)
C4_BodyRuleOnSend ==
    \A k \in 1..Len(messages) :
        Send(k) =>
            Count(MessageErrors(messages'[k]), BodyNotDefined)
                = (IF formatBody(messages[k].body) = Empty THEN 1 ELSE 0)

C4_BodyRuleOnImport ==
    (LoadSeed /\ seed # Undefined /\ Len(messages') = Len(Items(seed))
              /\ \A i \in 1..Len(Items(seed)) : DOMAIN Items(seed)[i] = {"body", "attributes"}) =>
        \A i \in 1..Len(messages') :
            Count(MessageErrors(messages'[i]), BodyNotDefined)
                = (IF formatBody(Items(seed)[i].body) = Empty THEN 1 ELSE 0)

C4_BodyRuleReadsFormattedBody == [][C4_BodyRuleOnSend /\ C4_BodyRuleOnImport]_vars

(* C5: the errors toMessage attaches are the validator's result for the    *)
(* message it produces.                                                     *)
C5_ImportedErrorsAreValidation ==
    [][(LoadSeed /\ seed # Undefined /\ Len(messages') = Len(Items(seed))
                 /\ \A i \in 1..Len(Items(seed)) : DOMAIN Items(seed)[i] = {"body", "attributes"}) =>
           \A i \in 1..Len(messages') :
               messages'[i].errors = validateMessage(sentMessage(messages'[i])).value]_vars

(* C6: a seed list whose records all have a body is imported record by     *)
(* record, a record without an attribute list getting an empty one.        *)
C6_ImportNeverAborts ==
    [][(LoadSeed /\ seed # Undefined
                 /\ \A i \in 1..Len(Items(seed)) : "body" \in DOMAIN Items(seed)[i]) =>
           /\ Len(messages') = Len(Items(seed))
           /\ \A i \in 1..Len(messages') :
                  /\ messages'[i].body = formatBody(Items(seed)[i].body)
                  /\ "attributes" \notin DOMAIN Items(seed)[i] => messages'[i].attributes = <<>>]_vars

DistinctIds(list) == \A i, j \in 1..Len(list) : i # j => list[i].id # list[j].id

(* C7: a failure the queue client reports for a send of message m sets m's *)
(* errors to that one error and changes nothing else of the list as it is  *)
(* when the failure arrives (stated for lists of pairwise-distinct ids).   *)
C7_FailureOnlySetsErrors ==
    [][\A n \in 1..Len(inflight) :
           (SqsFailure(n) /\ DistinctIds(messages)) =>
               \E error \in SqsErrors :
                   messages' = [i \in 1..Len(messages) |->
                                   IF messages[i].id = inflight[n].messageId
                                   THEN [messages[i] EXCEPT !.errors = Some(<<error>>)]
                                   ELSE messages[i]]]_vars

(* C12: in every reachable state the messages of the list have pairwise    *)
(* distinct identifiers, and so have the attributes of each message.       *)
C12_IdentifiersAreUnique ==
    /\ DistinctIds(messages)
    /\ \A k \in 1..Len(messages) : DistinctIds(messages[k].attributes)

Formatted == output.fn = "formatBody"

BraceDelimited(text) == Len(text) >= 1 /\ Head(text) = "{" /\ text[Len(text)] = "}"

(* C13: formatBody is idempotent; brace-delimited text that parses as JSON *)
(* becomes its serialization, 4 spaces a level, and any other text its     *)
(* trimmed self.                                                           *)
C13_FormatBodyIsIdempotent ==
    Formatted =>
        LET text == trim(input)
            result == output.result.value
        IN  /\ formatBody(result) = result
            /\ IF BraceDelimited(text) /\ JSONparse(text).type = "normal"
               THEN /\ result = JSONstringify(JSONparse(text).value)
                    /\ JSONparse(result) = JSONparse(text)
               ELSE result = text

(* A formatted document of two members, formatted again to itself. *)
C13_Witness ==
    /\ Formatted
    /\ input = output.result.value
    /\ JSONparse(input).type = "normal"
    /\ Len(JSONparse(input).value.members) = 2
    /\ \E i \in 1..Len(input) : SubSeq(input, i, i + Indent) = <<"\n">> \o Spaces(Indent)

(* C14: while a send of an item is pending (its sending is true), a click  *)
(* on its Send button makes no further call of onSend.                     *)
C14_OneSendInFlight ==
    [][\A k \in 1..Len(messages) : components[k].sending => ~Send(k)]_vars

(* Properties of the Settings tab (under SpecSettings). *)

TestInFlight == \E n \in 1..Len(inflight) : inflight[n].component # 0

(* C15: with no connection test in flight and all five fields of the       *)
(* configuration filled in, a click on Test Connection starts a test (its  *)
(* handler does not return at once), whatever happened before.             *)
C15_ClickStartsTest ==
    (settings.mounted /\ ~TestInFlight /\ valid(config)) => ~settings.testConnection.testing

(* Properties of a message with errors (under Spec). *)

(* An edit of the body or of the attributes of item k. *)
Edits(k) ==
    \/ UpdateBody(k)
    \/ AddAttribute(k)
    \/ \E j \in 1..Len(messages[k].attributes) : UpdateAttribute(k, j)
    \/ \E j \in 1..Len(messages[k].attributes) : RemoveAttribute(k, j)

(* C16: while an item has errors a click on its Send starts nothing; an    *)
(* edit of it puts an item without errors in its place and leaves every    *)
(* other item as it was, after which its Send handler validates again; and *)
(* no step other than an edit of it takes the errors off it. Stated for    *)
(* lists whose identifiers are distinct.                                   *)
C16_ErrorsBlockUntilEdited ==
    [][(DistinctIds(messages) /\ DistinctIds(messages')) =>
       \A k \in 1..Len(messages) :
           messages[k].errors # Undefined =>
               /\ ~Send(k)
               /\ Edits(k) =>
                      /\ Len(messages') = Len(messages)
                      /\ messages'[k].id = messages[k].id
                      /\ messages'[k].errors = Undefined
                      /\ \A i \in 1..Len(messages) : i # k => messages'[i] = messages[i]
                      /\ components'[k].sending \/ ~components'[k].sendMessage.sending
               /\ ~Edits(k) =>
                      \A i \in 1..Len(messages') :
                          messages'[i].id = messages[k].id => messages'[i].errors # Undefined]_vars

====
